---- MODULE Spec2Model ----
(***************************************************************************)
(* Weekly progress and milestone accumulation of the Solaris project       *)
(* manager: the report form (ReportFormLoader / ReportForm), the project   *)
(* deletion of ProjectDetailView and the milestone catalog, over a         *)
(* Firestore document store whose writes settle asynchronously.            *)
(***************************************************************************)
EXTENDS Integers, Sequences, FiniteSets, TLC

(***************************************************************************)
(* Bounds                                                                  *)
(***************************************************************************)
\* number of weekly-report documents addDoc may create in one behaviour
MaxReports == 2
\* number of timestamps new Date() may hand out in one behaviour
MaxNow == 2
\* largest catalog size / checked count drawn for the progress function
MaxCatalog == 40
\* number of writes that may be in flight at the same time
MaxInflight == 2
\* the length of a report list handed to a view
MaxListLen == 3

Clients == {"c1", "c2"}
ProjectIds == {"p1", "p2"}
MilestoneIds == {"m1", "m2"}
ReportIds == 1..MaxReports
SummaryInputs == {"", "s"}
StatusInputs == {"At Risk"}
Outcomes == {"ok", "permission-denied", "unavailable"}

(***************************************************************************)
(* Types of src/lib/types.ts                                               *)
(***************************************************************************)
ProjectStatus == {"On Track", "At Risk", "Off Track", "On Hold", "Completed"}
ReportStatus == {"On Track", "At Risk", "Off Track"}
ProjectTypes == {"solar-roof", "other"}

Null == [null |-> TRUE]
\* report.id of a report that was never saved (undefined, falsy)
NoId == 0

(***************************************************************************)
(* Array helpers                                                           *)
(***************************************************************************)
Range(s) == {s[i] : i \in 1..Len(s)}

Includes(s, x) == x \in Range(s)

\* prev.filter(id => id !== x)
Without(s, x) == SelectSeq(s, LAMBDA y : y # x)

RECURSIVE ArrayFromSet(_, _)
\* Array.from(new Set(s)): first occurrences, in insertion order
ArrayFromSet(s, acc) ==
    IF s = <<>> THEN acc
    ELSE ArrayFromSet(Tail(s), IF Includes(acc, Head(s)) THEN acc ELSE Append(acc, Head(s)))

RECURSIVE Flatten(_)
Flatten(ss) == IF ss = <<>> THEN <<>> ELSE Head(ss) \o Flatten(Tail(ss))

NoDuplicates(s) == Cardinality(Range(s)) = Len(s)

(***************************************************************************)
(* IEEE-754 double arithmetic of (K / N) * 100 and Math.round.             *)
(* A positive double is a 53-bit significand kept in three limbs           *)
(* d1 * 2^36 + d2 * 2^18 + d3 and a binary exponent.                       *)
(***************************************************************************)
Limb == 262144

RECURSIVE Pow2(_)
Pow2(n) == IF n = 0 THEN 1 ELSE 2 * Pow2(n - 1)

RECURSIVE Normalize(_, _, _)
\* scale a / b into [1, 2): the result <<a', b', e>> has a/b = (a'/b') * 2^e
Normalize(a, b, e) ==
    IF a < b THEN Normalize(2 * a, b, e - 1)
    ELSE IF a >= 2 * b THEN Normalize(a, 2 * b, e + 1)
    ELSE <<a, b, e>>

\* the double nearest to K / N (round to nearest, ties to even), K, N > 0
DoubleDiv(K, N) ==
    LET n == Normalize(K, N, 0)
        a == n[1]
        b == n[2]
        q1 == (a * 65536) \div b
        r1 == (a * 65536) % b
        q2 == (r1 * Limb) \div b
        r2 == (r1 * Limb) % b
        q3 == (r2 * Limb) \div b
        r3 == (r2 * Limb) % b
        up == IF 2 * r3 > b \/ (2 * r3 = b /\ q3 % 2 = 1) THEN 1 ELSE 0
        s3 == q3 + up
        s2 == q2 + (s3 \div Limb)
        s1 == q1 + (s2 \div Limb)
    IN  IF s1 = 131072
        THEN [d1 |-> 65536, d2 |-> 0, d3 |-> 0, e |-> n[3] + 1]
        ELSE [d1 |-> s1, d2 |-> s2 % Limb, d3 |-> s3 % Limb, e |-> n[3]]

\* the double nearest to x * 100; the result is (d1,d2,d3) * 2^(e - 50)
DoubleTimes100(x) ==
    LET p3 == x.d3 * 25
        p2 == x.d2 * 25 + (p3 \div Limb)
        x1 == x.d1 * 25 + (p2 \div Limb)
        x2 == p2 % Limb
        x3 == p3 % Limb
        t == IF x1 >= 2097152 THEN 5 ELSE 4
        low == x3 % Pow2(t)
        half == Pow2(t - 1)
        q == x3 \div Pow2(t)
        up == IF low > half \/ (low = half /\ q % 2 = 1) THEN 1 ELSE 0
        s3 == (q + up) * Pow2(t)
        s2 == x2 + (s3 \div Limb)
    IN  [d1 |-> x1 + (s2 \div Limb), d2 |-> s2 % Limb, d3 |-> s3 % Limb, e |-> x.e]

\* Math.round of a positive product of DoubleTimes100: nearest integer, halves up
MathRound(y) ==
    LET s == 14 - y.e
    IN  IF s > 24 THEN 0
        ELSE (y.d1 \div Pow2(s)) + ((y.d1 \div Pow2(s - 1)) % 2)

\* Math.round((checkedMilestones.length / projectMilestones.length) * 100)
progressValue(checkedLength, catalogLength) ==
    IF catalogLength = 0 THEN 0
    ELSE IF checkedLength = 0 THEN 0
    ELSE MathRound(DoubleTimes100(DoubleDiv(checkedLength, catalogLength)))

\* the real-valued percentage 100 * K / N rounded half up
RoundHalfUp(K, N) == IF N = 0 THEN 0 ELSE (200 * K + N) \div (2 * N)

(***************************************************************************)
(* State                                                                   *)
(***************************************************************************)
VARIABLES
    \* the document store
    projects,            \* projects/{id}: [status, projectType]
    weeklyReports,       \* projects/{p}/weeklyReports/{id}, keyed by report id
    milestones,          \* milestones/{id}: [projectType]
    nextReportId,        \* the next document id addDoc hands out
    now,                 \* the clock read by new Date()
    inflight,            \* writes issued and not yet settled
    \* browser sessions
    sessions,            \* the clients that have a session
    \* ReportFormLoader, per client
    project,             \* the project prop, Null when no report page is open
    reportNumber,        \* the week number of the route
    reportId,            \* the reportId of the route, NoId when creating
    reportToEdit,        \* the live document being edited, Null when creating
    previousReports,     \* the live query of the reports of earlier weeks
    \* ReportForm, per client
    summary,
    status,
    checkedMilestones,
    projectMilestones,   \* the live catalog subset of the project's type
    isSubmitting,
    showCompletionDialog,
    saving,              \* the Promise.all a save awaits, Null when none
    notice,              \* the last notification the client received
    \* ProjectDetailView
    deletePc,            \* position in handleDeleteProject
    deleteTarget,        \* the project the view shows
    reportsSnapshot,     \* the report ids getDocs returned
    deleteNotice,        \* the last notification of the view
    \* ProjectForm
    projectWrites,       \* the writes ProjectForm issued and that have not settled
    projectNotice,       \* the last notification of ProjectForm
    \* evaluation of the progress formula on drawn inputs
    drawn

storeVars == <<projects, weeklyReports, milestones, nextReportId, now, inflight>>
loaderVars == <<project, reportNumber, reportId, reportToEdit, previousReports>>
formVars == <<summary, status, checkedMilestones, projectMilestones, isSubmitting,
              showCompletionDialog, saving, notice>>
deleteVars == <<deletePc, deleteTarget, reportsSnapshot, deleteNotice>>
projectFormVars == <<projectWrites, projectNotice>>
vars == <<storeVars, sessions, loaderVars, formVars, deleteVars, projectFormVars, drawn>>

(***************************************************************************)
(* Store queries                                                           *)
(***************************************************************************)
EmptyDocs == [x \in {} |-> Null]

\* the documents of every weeklyReports collection
ReportsOfAll(p) == DOMAIN weeklyReports

\* the documents of the collection projects/{p}/weeklyReports
ReportsOf(p) == {r \in DOMAIN weeklyReports : weeklyReports[r].projectId = p}

\* a document as the hooks deliver it: its data and its id
WithId(r) == [id |-> r] @@ weeklyReports[r]

RECURSIVE OrderByWeekDesc(_)
OrderByWeekDesc(S) ==
    IF S = {} THEN <<>>
    ELSE LET top == CHOOSE r \in S : \A q \in S :
                        \/ weeklyReports[q].week < weeklyReports[r].week
                        \/ (weeklyReports[q].week = weeklyReports[r].week /\ q <= r)
         IN  <<WithId(top)>> \o OrderByWeekDesc(S \ {top})

\* the query with where("week", "<=", weekToCompare)
previousReportsQueryUpTo(p, weekToCompare) ==
    OrderByWeekDesc({r \in ReportsOf(p) : weeklyReports[r].week <= weekToCompare})

\* query(weeklyReports of p, where("week", "<", weekToCompare), orderBy("week", "desc"))
previousReportsQuery(p, weekToCompare) ==
    OrderByWeekDesc({r \in ReportsOf(p) : weeklyReports[r].week < weekToCompare})

\* query(milestones, where("projectType", "==", type))
milestonesQuery(type) == {m \in DOMAIN milestones : milestones[m].projectType = type}

(***************************************************************************)
(* ReportFormLoader                                                        *)
(***************************************************************************)
\* the union of the milestones of the earlier reports, as an array
previouslyCompletedMilestones(prev) ==
    ArrayFromSet(Flatten([i \in 1..Len(prev) |-> prev[i].milestones]), <<>>)

newReportObject(c) ==
    [id |-> NoId, projectId |-> project[c].id, week |-> reportNumber[c], summary |-> "",
     status |-> "On Track", milestones |-> <<>>, progress |-> 0, createdAt |-> now]

\* the report prop of ReportForm
report(c) == IF reportToEdit[c] # Null THEN reportToEdit[c] ELSE newReportObject(c)

weekToCompare(c) == IF reportToEdit[c] # Null THEN reportToEdit[c].week ELSE reportNumber[c]

\* an initialisation from the stored milestones of the report alone
initialMilestonesOfReport(prev, reportMilestones) ==
    ArrayFromSet(reportMilestones, <<>>)

\* the effect of ReportForm that initialises checkedMilestones
initialMilestones(prev, reportMilestones) ==
    ArrayFromSet(previouslyCompletedMilestones(prev) \o reportMilestones, <<>>)

FormOpen(c) == project[c] # Null

(***************************************************************************)
(* Initial state: one project of type solar-roof without reports           *)
(***************************************************************************)
InitState(S, catalog) ==
    /\ projects = [p \in {"p1"} |-> [status |-> "On Track", projectType |-> "solar-roof"]]
    /\ weeklyReports = EmptyDocs
    /\ milestones = [m \in catalog |-> [projectType |-> "solar-roof"]]
    /\ nextReportId = 1
    /\ now = 0
    /\ inflight = {}
    /\ sessions = S
    /\ project = [c \in Clients |-> Null]
    /\ reportNumber = [c \in Clients |-> 0]
    /\ reportId = [c \in Clients |-> NoId]
    /\ reportToEdit = [c \in Clients |-> Null]
    /\ previousReports = [c \in Clients |-> <<>>]
    /\ summary = [c \in Clients |-> ""]
    /\ status = [c \in Clients |-> "On Track"]
    /\ checkedMilestones = [c \in Clients |-> <<>>]
    /\ projectMilestones = [c \in Clients |-> {}]
    /\ isSubmitting = [c \in Clients |-> FALSE]
    /\ showCompletionDialog = [c \in Clients |-> FALSE]
    /\ saving = [c \in Clients |-> Null]
    /\ notice = [c \in Clients |-> Null]
    /\ deletePc = "idle"
    /\ deleteTarget = "p1"
    /\ reportsSnapshot = {}
    /\ deleteNotice = Null
    /\ projectWrites = {}
    /\ projectNotice = Null

InitSessions(S, catalog) == InitState(S, catalog) /\ drawn = Null

(***************************************************************************)
(* Opening the report page                                                 *)
(***************************************************************************)
\* the page mounts ReportFormLoader and both of its reads have loaded; the
\* toasts of the page left behind are gone
Mount(c, p, n, doc) ==
    LET prev == previousReportsQuery(p, IF doc # Null THEN doc.week ELSE n)
    IN  /\ project' = [project EXCEPT ![c] = [id |-> p] @@ projects[p]]
        /\ reportNumber' = [reportNumber EXCEPT ![c] = n]
        /\ reportId' = [reportId EXCEPT ![c] = IF doc # Null THEN doc.id ELSE NoId]
        /\ reportToEdit' = [reportToEdit EXCEPT ![c] = doc]
        /\ previousReports' = [previousReports EXCEPT ![c] = prev]
        /\ summary' = [summary EXCEPT ![c] = IF doc # Null THEN doc.summary ELSE ""]
        /\ status' = [status EXCEPT ![c] = IF doc # Null THEN doc.status ELSE "On Track"]
        /\ checkedMilestones' = [checkedMilestones EXCEPT ![c] =
               initialMilestones(prev, IF doc # Null THEN doc.milestones ELSE <<>>)]
        /\ projectMilestones' = [projectMilestones EXCEPT ![c] =
               milestonesQuery(projects[p].projectType)]
        /\ isSubmitting' = [isSubmitting EXCEPT ![c] = FALSE]
        /\ showCompletionDialog' = [showCompletionDialog EXCEPT ![c] = FALSE]
        /\ notice' = [notice EXCEPT ![c] = Null]
        /\ UNCHANGED <<storeVars, sessions, projectFormVars, saving, deleteVars, drawn>>

\* the "New Report" link of ProjectDetailView: week = (reports?.length || 0) + 1
OpenNewReport(c, p) ==
    /\ c \in sessions
    /\ ~FormOpen(c)
    /\ saving[c] = Null
    /\ p \in DOMAIN projects
    /\ nextReportId <= MaxReports
    /\ Mount(c, p, Cardinality(ReportsOf(p)) + 1, Null)

\* the "View/Edit" link of ProjectDetailView
OpenEditReport(c, r) ==
    /\ c \in sessions
    /\ ~FormOpen(c)
    /\ saving[c] = Null
    /\ r \in DOMAIN weeklyReports
    /\ weeklyReports[r].projectId \in DOMAIN projects
    /\ Mount(c, weeklyReports[r].projectId, weeklyReports[r].week, WithId(r))

\* a loader without the not-found check: report={reportToEdit || newReportObject}
loaderAlwaysRenders(id, doc) == "form"

\* what ReportFormLoader returns once its reads have loaded
loaderRenders(id, doc) == IF id # NoId /\ doc = Null THEN "notFound" ELSE "form"

\* the page is left: ReportFormLoader and ReportForm unmount
Unmount(c) ==
    /\ project' = [project EXCEPT ![c] = Null]
    /\ reportNumber' = [reportNumber EXCEPT ![c] = 0]
    /\ reportId' = [reportId EXCEPT ![c] = NoId]
    /\ reportToEdit' = [reportToEdit EXCEPT ![c] = Null]
    /\ previousReports' = [previousReports EXCEPT ![c] = <<>>]
    /\ summary' = [summary EXCEPT ![c] = ""]
    /\ status' = [status EXCEPT ![c] = "On Track"]
    /\ checkedMilestones' = [checkedMilestones EXCEPT ![c] = <<>>]
    /\ projectMilestones' = [projectMilestones EXCEPT ![c] = {}]
    /\ isSubmitting' = [isSubmitting EXCEPT ![c] = FALSE]
    /\ showCompletionDialog' = [showCompletionDialog EXCEPT ![c] = FALSE]

\* the report page of project p is opened with report number n and a reportId
\* that names no document
OpenMissingReport(c, p, n, r) ==
    /\ c \in sessions
    /\ ~FormOpen(c)
    /\ saving[c] = Null
    /\ p \in DOMAIN projects
    /\ r \notin DOMAIN weeklyReports
    /\ IF loaderRenders(r, Null) = "notFound"
       THEN /\ Unmount(c)
            /\ notice' = [notice EXCEPT ![c] = [kind |-> "not-found"]]
            /\ UNCHANGED <<storeVars, sessions, projectFormVars, saving, deleteVars, drawn>>
       ELSE Mount(c, p, n, Null)

\* the user leaves the report page without a save running
NavigateAway(c) ==
    /\ FormOpen(c)
    /\ ~isSubmitting[c]
    /\ Unmount(c)
    /\ notice' = [notice EXCEPT ![c] = Null]
    /\ UNCHANGED <<storeVars, sessions, projectFormVars, saving, deleteVars, drawn>>

(***************************************************************************)
(* Live reads of an open report form                                       *)
(***************************************************************************)
\* a new result of previousReportsQuery that adds the new floor to the current
\* selections
PreviousReportsSnapshotKeeping(c) ==
    LET fresh == previousReportsQuery(project[c].id, weekToCompare(c))
    IN  /\ FormOpen(c)
        /\ fresh # previousReports[c]
        /\ previousReports' = [previousReports EXCEPT ![c] = fresh]
        /\ checkedMilestones' = [checkedMilestones EXCEPT ![c] =
               ArrayFromSet(previouslyCompletedMilestones(fresh) \o checkedMilestones[c], <<>>)]
        /\ UNCHANGED <<storeVars, sessions, projectFormVars, project, reportNumber, reportId, reportToEdit,
                       summary, status, projectMilestones, isSubmitting,
                       showCompletionDialog, saving, notice, deleteVars, drawn>>

\* useCollection delivers a new result of previousReportsQuery; the effect
\* of ReportForm re-initialises checkedMilestones
PreviousReportsSnapshot(c) ==
    LET fresh == previousReportsQuery(project[c].id, weekToCompare(c))
    IN  /\ FormOpen(c)
        /\ fresh # previousReports[c]
        /\ previousReports' = [previousReports EXCEPT ![c] = fresh]
        /\ checkedMilestones' = [checkedMilestones EXCEPT ![c] =
               initialMilestones(fresh, report(c).milestones)]
        /\ UNCHANGED <<storeVars, sessions, projectFormVars, project, reportNumber, reportId, reportToEdit,
                       summary, status, projectMilestones, isSubmitting,
                       showCompletionDialog, saving, notice, deleteVars, drawn>>

\* useDoc delivers a new version of the report being edited
ReportToEditSnapshot(c) ==
    /\ FormOpen(c)
    /\ reportId[c] \in DOMAIN weeklyReports
    /\ WithId(reportId[c]) # reportToEdit[c]
    /\ reportToEdit' = [reportToEdit EXCEPT ![c] = WithId(reportId[c])]
    /\ checkedMilestones' = [checkedMilestones EXCEPT ![c] =
           initialMilestones(previousReports[c], weeklyReports[reportId[c]].milestones)]
    /\ UNCHANGED <<storeVars, sessions, projectFormVars, project, reportNumber, reportId, previousReports,
                   summary, status, projectMilestones, isSubmitting,
                   showCompletionDialog, saving, notice, deleteVars, drawn>>

\* useDoc reports that the report being edited is gone: notFound()
ReportToEditGone(c) ==
    /\ FormOpen(c)
    /\ reportId[c] # NoId
    /\ reportId[c] \notin DOMAIN weeklyReports
    /\ Unmount(c)
    /\ notice' = [notice EXCEPT ![c] = [kind |-> "not-found"]]
    /\ UNCHANGED <<storeVars, sessions, projectFormVars, saving, deleteVars, drawn>>

\* useCollection delivers a new result of milestonesQuery
MilestonesSnapshot(c) ==
    /\ FormOpen(c)
    /\ milestonesQuery(project[c].projectType) # projectMilestones[c]
    /\ projectMilestones' = [projectMilestones EXCEPT ![c] =
           milestonesQuery(project[c].projectType)]
    /\ UNCHANGED <<storeVars, sessions, projectFormVars, loaderVars, summary, status, checkedMilestones,
                   isSubmitting, showCompletionDialog, saving, notice, deleteVars, drawn>>

(***************************************************************************)
(* ReportForm: inputs                                                      *)
(***************************************************************************)
\* A toast is gone by the time of the next input of its client.
\* The form behind the modal completion dialog takes no input.  An input made
\* while a save runs is not part of that save (finalReportData is built before
\* the writes are issued), so it is taken as made once the save has settled.
FormInteractive(c) == FormOpen(c) /\ ~showCompletionDialog[c] /\ ~isSubmitting[c]

setSummary(c, s) ==
    /\ FormInteractive(c)
    /\ s # summary[c]
    /\ summary' = [summary EXCEPT ![c] = s]
    /\ notice' = [notice EXCEPT ![c] = Null]
    /\ UNCHANGED <<storeVars, sessions, projectFormVars, loaderVars, status, checkedMilestones,
                   projectMilestones, isSubmitting, showCompletionDialog, saving, deleteVars, drawn>>

setStatus(c, s) ==
    /\ FormInteractive(c)
    /\ s # status[c]
    /\ status' = [status EXCEPT ![c] = s]
    /\ notice' = [notice EXCEPT ![c] = Null]
    /\ UNCHANGED <<storeVars, sessions, projectFormVars, loaderVars, summary, checkedMilestones,
                   projectMilestones, isSubmitting, showCompletionDialog, saving, deleteVars, drawn>>

\* a checkbox that is never disabled
isPreviouslyCompletedNever(c, m) == FALSE

\* disabled={isPreviouslyCompleted} of the checkbox of milestone m
isPreviouslyCompleted(c, m) ==
    Includes(previouslyCompletedMilestones(previousReports[c]), m)

handleCheckboxChange(c, milestoneId, checked) ==
    /\ checkedMilestones' = [checkedMilestones EXCEPT ![c] =
           IF checked THEN Append(@, milestoneId) ELSE Without(@, milestoneId)]
    /\ notice' = [notice EXCEPT ![c] = Null]
    /\ UNCHANGED <<storeVars, sessions, projectFormVars, loaderVars, summary, status, projectMilestones,
                   isSubmitting, showCompletionDialog, saving, deleteVars, drawn>>

\* a checkbox whose every click reports checked
CheckboxClickChecks(c, m) ==
    /\ FormInteractive(c)
    /\ m \in projectMilestones[c]
    /\ ~isPreviouslyCompleted(c, m)
    /\ handleCheckboxChange(c, m, TRUE)

\* a click on the rendered, enabled checkbox of milestone m toggles it
CheckboxClick(c, m) ==
    /\ FormInteractive(c)
    /\ m \in projectMilestones[c]
    /\ ~isPreviouslyCompleted(c, m)
    /\ handleCheckboxChange(c, m, ~Includes(checkedMilestones[c], m))

(***************************************************************************)
(* ReportForm: submit and save                                             *)
(***************************************************************************)
\* a schema that accepts every draft
reportSchemaLax(data) == TRUE

\* reportSchema.safeParse
reportSchema(data) ==
    /\ data.summary # ""
    /\ data.status \in ReportStatus
    /\ data.progress >= 0
    /\ data.progress <= 100

\* the condition of handleFormSubmit that opens the completion dialog
allMilestonesCompleted(c) ==
    /\ Len(checkedMilestones[c]) = Cardinality(projectMilestones[c])
    /\ project[c].status # "Completed"

\* the report data with createdAt taken from the clock on every save
finalReportDataStamped(c) ==
    [projectId |-> report(c).projectId,
     week |-> report(c).week,
     createdAt |-> now,
     summary |-> summary[c],
     status |-> status[c],
     milestones |-> checkedMilestones[c],
     progress |-> progressValue(Len(checkedMilestones[c]), Cardinality(projectMilestones[c]))]

finalReportData(c) ==
    [projectId |-> report(c).projectId,
     week |-> report(c).week,
     createdAt |-> IF report(c).id # NoId THEN report(c).createdAt ELSE now,
     summary |-> summary[c],
     status |-> status[c],
     milestones |-> checkedMilestones[c],
     progress |-> progressValue(Len(checkedMilestones[c]), Cardinality(projectMilestones[c]))]

\* a save that always adds a document
reportPromiseAdding(c) ==
    [client |-> c, op |-> "addDoc", project |-> project[c].id, id |-> report(c).id,
     data |-> finalReportData(c), awaited |-> TRUE]

\* addDoc(reportsCollectionRef, ...) or updateDoc(doc(reportsCollectionRef, report.id), ...)
reportPromise(c) ==
    [client |-> c, op |-> IF report(c).id = NoId THEN "addDoc" ELSE "updateDoc",
     project |-> project[c].id, id |-> report(c).id, data |-> finalReportData(c),
     awaited |-> TRUE]

\* updateDoc(projectRef, { status: 'Completed' })
projectUpdatePromise(c) ==
    [client |-> c, op |-> "updateProject", project |-> project[c].id, id |-> NoId,
     data |-> [status |-> "Completed"], awaited |-> TRUE]

\* the writes one save issues
promises(c, markProjectAsCompleted) ==
    {reportPromise(c)} \cup (IF markProjectAsCompleted THEN {projectUpdatePromise(c)} ELSE {})

saveReportAndProject(c, markProjectAsCompleted) ==
    /\ showCompletionDialog' = [showCompletionDialog EXCEPT ![c] = FALSE]
    /\ IF ~reportSchema(finalReportData(c))
       THEN /\ notice' = [notice EXCEPT ![c] = [kind |-> "validation"]]
            /\ isSubmitting' = [isSubmitting EXCEPT ![c] = FALSE]
            /\ UNCHANGED <<storeVars, saving>>
       ELSE /\ report(c).id = NoId => now < MaxNow
            /\ Cardinality(inflight \cup promises(c, markProjectAsCompleted)) <= MaxInflight
            /\ now' = IF report(c).id = NoId THEN now + 1 ELSE now
            /\ inflight' = inflight \cup promises(c, markProjectAsCompleted)
            /\ isSubmitting' = [isSubmitting EXCEPT ![c] = TRUE]
            /\ saving' = [saving EXCEPT ![c] =
                   [isNewReport |-> report(c).id = NoId,
                    markProjectAsCompleted |-> markProjectAsCompleted]]
            /\ UNCHANGED <<projects, weeklyReports, milestones, nextReportId, notice>>
    /\ UNCHANGED <<sessions, projectFormVars, loaderVars, summary, status, checkedMilestones,
                   projectMilestones, deleteVars, drawn>>

\* a submit that starts the save before it asks about completion
handleFormSubmitSavingFirst(c) ==
    /\ FormOpen(c)
    /\ ~showCompletionDialog[c]
    /\ ~isSubmitting[c]
    /\ IF allMilestonesCompleted(c) /\ reportSchema(finalReportData(c))
       THEN /\ report(c).id = NoId => now < MaxNow
            /\ Cardinality(inflight \cup promises(c, FALSE)) <= MaxInflight
            /\ now' = IF report(c).id = NoId THEN now + 1 ELSE now
            /\ inflight' = inflight \cup promises(c, FALSE)
            /\ isSubmitting' = [isSubmitting EXCEPT ![c] = TRUE]
            /\ saving' = [saving EXCEPT ![c] =
                   [isNewReport |-> report(c).id = NoId, markProjectAsCompleted |-> FALSE]]
            /\ showCompletionDialog' = [showCompletionDialog EXCEPT ![c] = TRUE]
            /\ UNCHANGED <<projects, weeklyReports, milestones, nextReportId, notice,
                           sessions, projectFormVars, loaderVars, summary, status,
                           checkedMilestones, projectMilestones, deleteVars, drawn>>
       ELSE saveReportAndProject(c, FALSE)

\* the "Save Report" button, disabled while a save runs
handleFormSubmit(c) ==
    /\ FormOpen(c)
    /\ ~showCompletionDialog[c]
    /\ ~isSubmitting[c]
    /\ IF allMilestonesCompleted(c)
       THEN /\ showCompletionDialog' = [showCompletionDialog EXCEPT ![c] = TRUE]
            /\ UNCHANGED <<storeVars, sessions, projectFormVars, loaderVars, summary, status,
                           checkedMilestones, projectMilestones, isSubmitting, saving,
                           notice, deleteVars, drawn>>
       ELSE saveReportAndProject(c, FALSE)

\* "Just Save Report"
DialogDecline(c) ==
    /\ FormOpen(c)
    /\ showCompletionDialog[c]
    /\ ~isSubmitting[c]
    /\ saveReportAndProject(c, FALSE)

\* "Confirm & Save"
DialogConfirm(c) ==
    /\ FormOpen(c)
    /\ showCompletionDialog[c]
    /\ ~isSubmitting[c]
    /\ saveReportAndProject(c, TRUE)

\* the dialog is dismissed: onOpenChange(false)
DialogClose(c) ==
    /\ FormOpen(c)
    /\ showCompletionDialog[c]
    /\ showCompletionDialog' = [showCompletionDialog EXCEPT ![c] = FALSE]
    /\ UNCHANGED <<storeVars, sessions, projectFormVars, loaderVars, summary, status, checkedMilestones,
                   projectMilestones, isSubmitting, saving, notice, deleteVars, drawn>>

(***************************************************************************)
(* Settlement of the writes of a save                                      *)
(***************************************************************************)
\* the result of a write: the store rejects an update of a missing document
WriteResult(w, outcome) ==
    IF outcome # "ok" THEN outcome
    ELSE IF w.op = "updateDoc" /\ w.id \notin DOMAIN weeklyReports THEN "not-found"
    ELSE IF w.op = "updateProject" /\ w.project \notin DOMAIN projects THEN "not-found"
    ELSE "ok"

\* a write that also stamps its progress on the other reports of the project
ApplyWriteRestamping(w, result) ==
    LET after == IF w.op = "addDoc" THEN weeklyReports @@ (nextReportId :> w.data)
                 ELSE [weeklyReports EXCEPT ![w.id] = w.data]
    IN  /\ weeklyReports' =
               IF result # "ok" \/ w.op = "updateProject" THEN weeklyReports
               ELSE [r \in DOMAIN after |->
                        IF after[r].projectId = w.data.projectId
                        THEN [after[r] EXCEPT !.progress = w.data.progress]
                        ELSE after[r]]
        /\ nextReportId' = IF result = "ok" /\ w.op = "addDoc" THEN nextReportId + 1
                           ELSE nextReportId
        /\ projects' =
               IF result = "ok" /\ w.op = "updateProject"
               THEN [projects EXCEPT ![w.project].status = w.data.status]
               ELSE projects

\* the effect of a write on the store
ApplyWrite(w, result) ==
    /\ weeklyReports' =
           IF result # "ok" THEN weeklyReports
           ELSE IF w.op = "addDoc" THEN weeklyReports @@ (nextReportId :> w.data)
           ELSE IF w.op = "updateDoc" THEN [weeklyReports EXCEPT ![w.id] = w.data]
           ELSE weeklyReports
    /\ nextReportId' = IF result = "ok" /\ w.op = "addDoc" THEN nextReportId + 1
                       ELSE nextReportId
    /\ projects' =
           IF result = "ok" /\ w.op = "updateProject"
           THEN [projects EXCEPT ![w.project].status = w.data.status]
           ELSE projects

\* the catch block of saveReportAndProject
saveFailureNotice(result) ==
    IF result = "permission-denied"
    THEN [kind |-> "permission-error", operation |-> "write", path |-> "Multiple operations"]
    ELSE [kind |-> "error"]

Abandon(w) == [w EXCEPT !.awaited = FALSE]

SettleWrite(w, outcome) ==
    LET result == WriteResult(w, outcome)
        c == w.client
        rest == inflight \ {w}
    IN  /\ w \in inflight
        /\ (outcome = "ok" /\ w.op = "addDoc") => nextReportId <= MaxReports
        /\ ApplyWrite(w, result)
        /\ UNCHANGED <<milestones, now, sessions, projectFormVars, deleteVars, drawn>>
        /\ IF ~w.awaited \/ (result = "ok" /\ \E x \in rest : x.client = c /\ x.awaited)
           THEN \* nobody awaits the write, or Promise.all awaits another one
                /\ inflight' = rest
                /\ UNCHANGED <<loaderVars, formVars>>
           ELSE IF result = "ok"
           THEN \* Promise.all resolves: toast and router.push
                /\ inflight' = rest
                /\ notice' = [notice EXCEPT ![c] =
                       [kind |-> "success", isNewReport |-> saving[c].isNewReport,
                        markProjectAsCompleted |-> saving[c].markProjectAsCompleted]]
                /\ saving' = [saving EXCEPT ![c] = Null]
                /\ Unmount(c)
           ELSE \* Promise.all rejects on the first failure
                /\ inflight' = {IF x.client = c THEN Abandon(x) ELSE x : x \in rest}
                /\ notice' = [notice EXCEPT ![c] = saveFailureNotice(result)]
                /\ saving' = [saving EXCEPT ![c] = Null]
                /\ isSubmitting' = [isSubmitting EXCEPT ![c] = FALSE]
                /\ UNCHANGED <<loaderVars, summary, status, checkedMilestones,
                               projectMilestones, showCompletionDialog>>

(***************************************************************************)
(* MilestoneForm: the catalog                                              *)
(***************************************************************************)
\* addDoc(milestonesColRef, milestoneData), when the store accepts it
MilestoneCreate(m, type) ==
    /\ m \notin DOMAIN milestones
    /\ milestones' = milestones @@ (m :> [projectType |-> type])
    /\ UNCHANGED <<projects, weeklyReports, nextReportId, now, inflight, sessions, projectFormVars,
                   loaderVars, formVars, deleteVars, drawn>>

\* updateDoc(milestoneRef, milestoneData) with another project type
MilestoneUpdate(m, type) ==
    /\ m \in DOMAIN milestones
    /\ milestones[m].projectType # type
    /\ milestones' = [milestones EXCEPT ![m].projectType = type]
    /\ UNCHANGED <<projects, weeklyReports, nextReportId, now, inflight, sessions, projectFormVars,
                   loaderVars, formVars, deleteVars, drawn>>

(***************************************************************************)
(* ProjectDetailView: handleDeleteProject                                  *)
(***************************************************************************)
isDeleting == deletePc # "idle"

\* the catch block of handleDeleteProject
deleteFailureNotice(outcome) ==
    IF outcome = "permission-denied"
    THEN [kind |-> "permission-error", operation |-> "delete"]
    ELSE [kind |-> "error"]

\* "Yes, delete project": the handler runs up to the await of getDocs
handleDeleteProject(p) ==
    /\ ~isDeleting
    /\ p \in DOMAIN projects
    /\ deletePc' = "getDocs"
    /\ deleteTarget' = p
    /\ UNCHANGED <<storeVars, sessions, projectFormVars, loaderVars, formVars, reportsSnapshot,
                   deleteNotice, drawn>>

\* getDocs(reportsColRef) settles; on success the batch is filled and committed
DeleteGetDocs(outcome) ==
    /\ deletePc = "getDocs"
    /\ IF outcome = "ok"
       THEN /\ reportsSnapshot' = ReportsOf(deleteTarget)
            /\ deletePc' = "commit"
            /\ UNCHANGED deleteNotice
       ELSE /\ deleteNotice' = deleteFailureNotice(outcome)
            /\ deletePc' = "idle"
            /\ UNCHANGED reportsSnapshot
    /\ UNCHANGED <<storeVars, sessions, projectFormVars, loaderVars, formVars, deleteTarget, drawn>>

\* the documents the batch deletes
batchDeletes == [reports |-> reportsSnapshot, projects |-> {deleteTarget}]

\* deletes issued one by one: the reports are gone when the project delete fails
commitOneByOne(outcome) ==
    IF outcome = "ok" THEN batchDeletes ELSE [reports |-> reportsSnapshot, projects |-> {}]

\* the documents batch.commit() removes: all of the batch, or none
commit(outcome) ==
    IF outcome = "ok" THEN batchDeletes ELSE [reports |-> {}, projects |-> {}]

\* batch.commit() settles
DeleteCommit(outcome) ==
    /\ deletePc = "commit"
    /\ deletePc' = "idle"
    /\ weeklyReports' = [r \in DOMAIN weeklyReports \ commit(outcome).reports |->
                            weeklyReports[r]]
    /\ projects' = [p \in DOMAIN projects \ commit(outcome).projects |-> projects[p]]
    /\ deleteNotice' = IF outcome = "ok" THEN [kind |-> "success"]
                       ELSE deleteFailureNotice(outcome)
    /\ reportsSnapshot' = {}
    /\ UNCHANGED <<milestones, nextReportId, now, inflight, sessions, projectFormVars, loaderVars, formVars,
                   deleteTarget, drawn>>

(***************************************************************************)
(* Specifications                                                          *)
(***************************************************************************)
\* filing and editing reports on the report page
ReportForm(c) ==
    \/ \E p \in ProjectIds : OpenNewReport(c, p)
    \/ \E r \in ReportIds : OpenEditReport(c, r)
    \/ NavigateAway(c)
    \/ \E s \in SummaryInputs : setSummary(c, s)
    \/ \E m \in MilestoneIds : CheckboxClick(c, m)
    \/ handleFormSubmit(c)
    \/ DialogDecline(c)
    \/ DialogClose(c)

Settle == \E w \in inflight, outcome \in Outcomes : SettleWrite(w, outcome)

\* one manager filing, editing and completing the reports of a project with two
\* milestones
Next ==
    \/ \E c \in Clients : ReportForm(c)
    \/ \E c \in Clients : PreviousReportsSnapshot(c)
    \/ \E c \in Clients : ReportToEditSnapshot(c)
    \/ \E c \in Clients : DialogConfirm(c)
    \/ Settle

Init == InitSessions({"c1"}, {"m1", "m2"})

Spec == Init /\ [][Next]_vars

\* the manager files reports while the milestone catalog is maintained
NextCatalog ==
    \/ \E c \in Clients : ReportForm(c)
    \/ \E c \in Clients : MilestonesSnapshot(c)
    \/ Settle
    \/ \E m \in MilestoneIds, type \in ProjectTypes : MilestoneCreate(m, type)
    \/ \E m \in MilestoneIds, type \in ProjectTypes : MilestoneUpdate(m, type)

InitCatalog == InitSessions({"c1"}, {})

SpecCatalog == InitCatalog /\ [][NextCatalog]_vars

\* the manager files reports while the project is deleted from its detail view
NextDelete ==
    \/ \E c \in Clients : ReportForm(c)
    \/ \E c \in Clients, s \in StatusInputs : setStatus(c, s)
    \/ \E c \in Clients : PreviousReportsSnapshot(c)
    \/ \E c \in Clients : ReportToEditGone(c)
    \/ \E c \in Clients, p \in ProjectIds, n \in ReportIds, r \in ReportIds :
          OpenMissingReport(c, p, n, r)
    \/ Settle
    \/ \E p \in ProjectIds : handleDeleteProject(p)
    \/ \E outcome \in Outcomes : DeleteGetDocs(outcome)
    \/ \E outcome \in Outcomes : DeleteCommit(outcome)

InitDelete == InitSessions({"c1"}, {"m1", "m2"})

SpecDelete == InitDelete /\ [][NextDelete]_vars

\* the progress formula on every checked count and catalog size up to MaxCatalog
InitProgress ==
    /\ InitState({}, {})
    /\ drawn \in [checkedLength : 0..MaxCatalog, catalogLength : 0..MaxCatalog,
                  progress : {-1}]

\* the useMemo of progressValue runs on the drawn lengths
ComputeProgress ==
    /\ drawn.progress = -1
    /\ drawn' = [drawn EXCEPT !.progress = progressValue(drawn.checkedLength, drawn.catalogLength)]
    /\ UNCHANGED <<storeVars, sessions, projectFormVars, loaderVars, formVars, deleteVars>>

SpecProgress == InitProgress /\ [][ComputeProgress]_vars

(***************************************************************************)
(* ProjectForm: handleSubmit                                               *)
(***************************************************************************)
\* the project prop of a form that creates a project
NoProject == "none"

\* the fields of the form; "" is a project type left unselected
ProjectFormInputs == [projectType : ProjectTypes \cup {""}, status : ProjectStatus]

\* projectSchema.safeParse
projectSchema(data) == data.projectType # "" /\ data.status \in ProjectStatus

\* updateDoc(projectRef, projectData) or addDoc(projectsColRef, projectData)
projectWrite(p, data) ==
    [op |-> IF p = NoProject THEN "addDoc" ELSE "updateDoc", project |-> p, data |-> data]

\* the form is submitted: the write is started and not awaited, the success
\* toast follows at once
handleSubmit(p, data) ==
    /\ p = NoProject \/ p \in DOMAIN projects
    /\ IF ~projectSchema(data)
       THEN /\ projectNotice' = [kind |-> "validation"]
            /\ UNCHANGED projectWrites
       ELSE /\ Cardinality(projectWrites \cup {projectWrite(p, data)}) <= MaxInflight
            /\ projectWrites' = projectWrites \cup {projectWrite(p, data)}
            /\ projectNotice' = [kind |-> "success", updated |-> p # NoProject]
    /\ UNCHANGED <<storeVars, sessions, loaderVars, formVars, deleteVars, drawn>>

\* the result of a write of ProjectForm
ProjectWriteResult(w, outcome) ==
    IF outcome # "ok" THEN outcome
    ELSE IF w.op = "updateDoc" /\ w.project \notin DOMAIN projects THEN "not-found"
    ELSE "ok"

\* the .catch of the write: only a denial is signalled
projectWriteCatch(w, result) ==
    IF result = "permission-denied"
    THEN [kind |-> "permission-error",
          operation |-> IF w.op = "addDoc" THEN "create" ELSE "update"]
    ELSE projectNotice

\* a write of ProjectForm settles
ProjectWriteSettle(w, outcome) ==
    LET result == ProjectWriteResult(w, outcome)
        fresh == CHOOSE p \in ProjectIds : p \notin DOMAIN projects
    IN  /\ w \in projectWrites
        /\ (outcome = "ok" /\ w.op = "addDoc") => ProjectIds \ DOMAIN projects # {}
        /\ projectWrites' = projectWrites \ {w}
        /\ projects' = IF result # "ok" THEN projects
                       ELSE IF w.op = "addDoc" THEN projects @@ (fresh :> w.data)
                       ELSE [projects EXCEPT ![w.project] = w.data]
        /\ projectNotice' = IF result = "ok" THEN projectNotice
                            ELSE projectWriteCatch(w, result)
        /\ UNCHANGED <<weeklyReports, milestones, nextReportId, now, inflight, sessions,
                       loaderVars, formVars, deleteVars, drawn>>

ProjectSettle == \E w \in projectWrites, outcome \in Outcomes : ProjectWriteSettle(w, outcome)

\* projects are created and updated with ProjectForm
NextProject ==
    \/ \E p \in ProjectIds \cup {NoProject}, data \in ProjectFormInputs : handleSubmit(p, data)
    \/ ProjectSettle

InitProject == InitSessions({}, {})

SpecProject == InitProject /\ [][NextProject]_vars

\* a second project is created, reports are filed for both projects and
\* projects are deleted
NewProjectInputs == {[projectType |-> "solar-roof", status |-> "On Track"]}

NextPortfolio ==
    \/ \E data \in NewProjectInputs : handleSubmit(NoProject, data)
    \/ ProjectSettle
    \/ \E c \in Clients, p \in ProjectIds : OpenNewReport(c, p)
    \/ \E c \in Clients, s \in SummaryInputs : setSummary(c, s)
    \/ \E c \in Clients, m \in MilestoneIds : CheckboxClick(c, m)
    \/ \E c \in Clients : handleFormSubmit(c)
    \/ Settle
    \/ \E p \in ProjectIds : handleDeleteProject(p)
    \/ \E outcome \in Outcomes : DeleteGetDocs(outcome)
    \/ \E outcome \in Outcomes : DeleteCommit(outcome)

InitPortfolio == InitSessions({"c1"}, {"m1"})

SpecPortfolio == InitPortfolio /\ [][NextPortfolio]_vars

\* one manager files the reports of a project week after week through the
\* "New Report" link; no report is edited and the catalog is left alone
NextSequence ==
    \/ \E c \in Clients, p \in ProjectIds : OpenNewReport(c, p)
    \/ \E c \in Clients : NavigateAway(c)
    \/ \E c \in Clients, s \in SummaryInputs : setSummary(c, s)
    \/ \E c \in Clients, m \in MilestoneIds : CheckboxClick(c, m)
    \/ \E c \in Clients : handleFormSubmit(c)
    \/ \E c \in Clients : DialogDecline(c)
    \/ \E c \in Clients : DialogConfirm(c)
    \/ \E c \in Clients : DialogClose(c)
    \/ \E c \in Clients : PreviousReportsSnapshot(c)
    \/ Settle

InitSequence == InitSessions({"c1"}, {"m1", "m2"})

SpecSequence == InitSequence /\ [][NextSequence]_vars

\* two managers file new reports of the same project while the live query of
\* the earlier reports keeps their open forms up to date
NextLive ==
    \/ \E c \in Clients, p \in ProjectIds : OpenNewReport(c, p)
    \/ \E c \in Clients, s \in SummaryInputs : setSummary(c, s)
    \/ \E c \in Clients, m \in MilestoneIds : CheckboxClick(c, m)
    \/ \E c \in Clients : handleFormSubmit(c)
    \/ \E c \in Clients : DialogDecline(c)
    \/ \E c \in Clients : PreviousReportsSnapshot(c)
    \/ Settle

InitLive == InitSessions({"c1", "c2"}, {"m1", "m2"})

SpecLive == InitLive /\ [][NextLive]_vars

\* two managers file new reports of the same project from two sessions
NextConcurrent ==
    \/ \E c \in Clients, p \in ProjectIds : OpenNewReport(c, p)
    \/ \E c \in Clients : NavigateAway(c)
    \/ \E c \in Clients, s \in SummaryInputs : setSummary(c, s)
    \/ \E c \in Clients : handleFormSubmit(c)
    \/ Settle

InitConcurrent == InitSessions({"c1", "c2"}, {"m1", "m2"})

SpecConcurrent == InitConcurrent /\ [][NextConcurrent]_vars

\* the report lists a view is rendered with, in any order
ProgressInputs == {0, 50, 100}
ReportLists ==
    UNION {[1..n -> [week : 1..MaxReports, progress : ProgressInputs]] : n \in 0..MaxListLen}

\* reports[reports.length - 1]
latestReport(reports) == IF Len(reports) = 0 THEN Null ELSE reports[Len(reports)]

\* latestReport?.progress ?? 0
overallProgress(reports) ==
    IF latestReport(reports) = Null THEN 0 ELSE latestReport(reports).progress

InitLatest ==
    /\ InitState({}, {})
    /\ drawn \in [reports : ReportLists, overallProgress : {-1}]

\* GeneralReportView renders with the drawn list
RenderOverallProgress ==
    /\ drawn.overallProgress = -1
    /\ drawn' = [drawn EXCEPT !.overallProgress = overallProgress(drawn.reports)]
    /\ UNCHANGED <<storeVars, sessions, projectFormVars, loaderVars, formVars, deleteVars>>

SpecLatest == InitLatest /\ [][RenderOverallProgress]_vars

(***************************************************************************)
(* Properties                                                              *)
(***************************************************************************)
\* the inherited floor the form of client c works with
floor(c) == Range(previouslyCompletedMilestones(previousReports[c]))

\* the report writes a step issues
IssuedReportWrites == {w \in inflight' : w \notin inflight /\ w.awaited /\ w.op # "updateProject"}

\* C1: of two stored reports of one project, the one of the earlier week holds
\* a subset of the milestones of the one of the later week.
MonotonicInheritance ==
    \A r1 \in DOMAIN weeklyReports, r2 \in DOMAIN weeklyReports :
        (/\ weeklyReports[r1].projectId = weeklyReports[r2].projectId
         /\ weeklyReports[r1].week < weeklyReports[r2].week)
        => Range(weeklyReports[r1].milestones) \subseteq Range(weeklyReports[r2].milestones)

\* C2: when a deletion succeeds, no weekly report remains under the project and
\* the project document is absent.
SuccessfulDeletionLeavesNothing ==
    [][DeleteCommit("ok") =>
          /\ deleteTarget \notin DOMAIN projects'
          /\ \A r \in DOMAIN weeklyReports' : weeklyReports'[r].projectId # deleteTarget]_vars

\* C3: when the store denies a read or the commit of a deletion, the project
\* and all weekly reports stay as they are and the permission-error signal
\* carries the operation 'delete'.
DeniedDeletionDeletesNothing ==
    [][(DeleteGetDocs("permission-denied") \/ DeleteCommit("permission-denied")) =>
          /\ projects' = projects
          /\ weeklyReports' = weeklyReports
          /\ deleteNotice' = [kind |-> "permission-error", operation |-> "delete"]]_vars

\* C3, witness: a deletion of a project with reports was denied
DeniedDeletionOfReports ==
    /\ deleteNotice = [kind |-> "permission-error", operation |-> "delete"]
    /\ deletePc = "idle"
    /\ deleteTarget \in DOMAIN projects
    /\ ReportsOf(deleteTarget) # {}

\* C4: every stored weekly report belongs to a project document that exists.
NoOrphanedReport ==
    \A r \in DOMAIN weeklyReports : weeklyReports[r].projectId \in DOMAIN projects

\* C5: a submit opens the completion dialog exactly when the checked set is
\* the whole catalog subset and the project is not Completed.
DialogIffCatalogChecked ==
    [][\A c \in Clients : handleFormSubmit(c) =>
          (showCompletionDialog'[c] <=>
              (/\ Range(checkedMilestones[c]) = projectMilestones[c]
               /\ project[c].status # "Completed"))]_vars

\* C6: with an empty catalog subset a submit never opens the completion dialog.
EmptyCatalogNeverAsks ==
    [][\A c \in Clients : (handleFormSubmit(c) /\ projectMilestones[c] = {}) =>
          ~showCompletionDialog'[c]]_vars

\* C7: a decline that saves writes the report with every catalog milestone
\* checked and progress 100, and writes nothing to the project.
DeclineSavesCompleteReport ==
    [][\A c \in Clients : (DialogDecline(c) /\ isSubmitting'[c]) =>
          /\ IssuedReportWrites # {}
          /\ \A w \in inflight' \ inflight : w.op # "updateProject"
          /\ \A w \in IssuedReportWrites :
                /\ projectMilestones[c] \subseteq Range(w.data.milestones)
                /\ w.data.progress = 100]_vars

\* a notification that names the write that failed
NamesFailedWrite(n) == "path" \in DOMAIN n /\ n.path # "Multiple operations"

\* C8: when a confirmed save has settled, both writes succeeded or the
\* notification names the write that failed.
ConfirmSucceedsOrNamesFailure ==
    [][\A c \in Clients :
          (saving[c] # Null /\ saving'[c] = Null /\ saving[c].markProjectAsCompleted) =>
              \/ notice'[c].kind = "success"
              \/ NamesFailedWrite(notice'[c])]_vars

\* C9: the computed progress is 100 * K / N rounded half up, and 0 for N = 0.
ProgressIsRoundHalfUp ==
    drawn.progress # -1 => drawn.progress = RoundHalfUp(drawn.checkedLength, drawn.catalogLength)

\* C10: the milestones a save writes contain the inherited floor of the form.
WrittenSetContainsFloor ==
    [][\A w \in IssuedReportWrites : floor(w.client) \subseteq Range(w.data.milestones)]_vars

\* C10, witness: a report is being written with more than its non-empty floor
WritingAboveFloor ==
    \E w \in inflight :
        /\ w.awaited
        /\ w.op = "addDoc"
        /\ FormOpen(w.client)
        /\ isSubmitting[w.client]
        /\ floor(w.client) # {}
        /\ floor(w.client) \subseteq Range(w.data.milestones)
        /\ floor(w.client) # Range(w.data.milestones)

\* the union of the milestones of the reports of project p stored in docs with
\* a week below beforeWeek
StoredFloor(docs, p, beforeWeek) ==
    UNION {Range(docs[r].milestones) :
              r \in {q \in DOMAIN docs : docs[q].projectId = p /\ docs[q].week < beforeWeek}}

\* the week the floor of the form of client c is taken below: the stored week
\* of the report being edited, the report number of the route when creating
beforeWeek(docs, c, id, number) == IF id # NoId THEN docs[id].week ELSE number

\* C11: whenever the loader hands the form an inherited floor (on opening the
\* page and on every new result of the query), the floor is the union of the
\* milestones of the stored reports of the project with a week strictly below
\* the stored week of the edited report, or below the report number when
\* creating.
FloorIsUnionOfEarlierWeeks ==
    [][\A c \in Clients :
          (/\ FormOpen(c)'
           /\ (~FormOpen(c) \/ previousReports'[c] # previousReports[c])
           /\ reportId'[c] # NoId => reportId'[c] \in DOMAIN weeklyReports') =>
              floor(c)' = StoredFloor(weeklyReports', project'[c].id,
                              beforeWeek(weeklyReports', c, reportId'[c], reportNumber'[c]))]_vars

\* C11, witness: the form edits a report while a report of a later week holds
\* a milestone that is not part of the floor
FloorLeavesOutLaterWeek ==
    \E c \in Clients :
        /\ FormOpen(c)
        /\ reportToEdit[c] # Null
        /\ \E r \in ReportsOf(project[c].id) :
              /\ weeklyReports[r].week > reportToEdit[c].week
              /\ ~(Range(weeklyReports[r].milestones) \subseteq floor(c))

\* the notification of a save that updated an existing report
EditSucceeded(c) == "kind" \in DOMAIN notice[c] /\ notice[c].kind = "success" /\ ~notice[c].isNewReport

\* C12: no step changes the createdAt of a stored report, so after any
\* sequence of edits it is the value assigned at creation.
CreatedAtNeverAltered ==
    [][\A r \in DOMAIN weeklyReports :
          r \in DOMAIN weeklyReports' => weeklyReports'[r].createdAt = weeklyReports[r].createdAt]_vars

\* C12, witness: an edit has been saved after the clock moved on from the
\* creation of a report
EditedAfterClockMoved ==
    \E c \in Clients :
        /\ EditSucceeded(c)
        /\ \E r \in DOMAIN weeklyReports : weeklyReports[r].createdAt < now

\* the three constraints on a report
Acceptable(data) ==
    /\ data.summary # ""
    /\ data.status \in {"On Track", "At Risk", "Off Track"}
    /\ data.progress \in 0..100

\* the draft the form of client c holds
Draft(c) ==
    [summary |-> summary[c], status |-> status[c],
     progress |-> progressValue(Len(checkedMilestones[c]), Cardinality(projectMilestones[c]))]

\* a step that runs saveReportAndProject
SaveStep(c) ==
    \/ handleFormSubmit(c) /\ ~showCompletionDialog'[c]
    \/ DialogDecline(c)
    \/ DialogConfirm(c)

\* C13: every report write issued carries a non-empty summary, one of the
\* three statuses and a progress within 0..100; a save of a draft that breaks
\* one of them issues no write and leaves reports and projects as they are;
\* every stored report satisfies the three constraints.
WritesOnlyValidReports ==
    [][/\ \A w \in IssuedReportWrites : Acceptable(w.data)
       /\ \A c \in Clients : (SaveStep(c) /\ ~Acceptable(Draft(c))) =>
             /\ inflight' = inflight
             /\ weeklyReports' = weeklyReports
             /\ projects' = projects
             /\ notice'[c] = [kind |-> "validation"]
       /\ \A r \in DOMAIN weeklyReports' : Acceptable(weeklyReports'[r])]_vars

\* C13, witness: with reports stored, a save of a draft with a summary was
\* refused for its progress
RefusedForProgress ==
    \E c \in Clients :
        /\ notice[c] = [kind |-> "validation"]
        /\ summary[c] # ""
        /\ Draft(c).progress > 100
        /\ DOMAIN weeklyReports # {}

\* C14: the overall progress a view shows is the progress of a report of the
\* highest week of the list it was given, whatever the order of the list, and
\* 0 for the empty list.
OverallProgressIsOfMaxWeek ==
    drawn.overallProgress # -1 =>
        IF drawn.reports = <<>> THEN drawn.overallProgress = 0
        ELSE \E i \in 1..Len(drawn.reports) :
                /\ \A j \in 1..Len(drawn.reports) : drawn.reports[j].week <= drawn.reports[i].week
                /\ drawn.overallProgress = drawn.reports[i].progress

\* C15: no two stored reports of one project carry the same week.
WeeksUniquePerProject ==
    \A r1 \in DOMAIN weeklyReports, r2 \in DOMAIN weeklyReports :
        (/\ r1 # r2
         /\ weeklyReports[r1].projectId = weeklyReports[r2].projectId)
        => weeklyReports[r1].week # weeklyReports[r2].week

\* a notification of one of the three outcomes
IsOutcome(n, kind) == "kind" \in DOMAIN n /\ n.kind = kind

\* C16: a save that settles ends in a success, a permission-error or a generic
\* failure notification; a write, read or commit the store denies is reported
\* to its caller as a permission-error; a step that settles a failed write
\* issues no write.
EveryDenialIsSignalled ==
    [][/\ \A c \in Clients : (saving[c] # Null /\ saving'[c] = Null) =>
             \E kind \in {"success", "permission-error", "error"} : IsOutcome(notice'[c], kind)
       /\ \A w \in inflight : SettleWrite(w, "permission-denied") =>
             /\ IsOutcome(notice'[w.client], "permission-error")
             /\ \A x \in inflight' : x \in inflight \/ ~x.awaited
       /\ (DeleteGetDocs("permission-denied") \/ DeleteCommit("permission-denied")) =>
             IsOutcome(deleteNotice', "permission-error")]_vars

\* the reports a step creates or changes
ChangedReports ==
    {r \in DOMAIN weeklyReports' : r \notin DOMAIN weeklyReports \/ weeklyReports'[r] # weeklyReports[r]}

\* C17: a step changes at most one weekly report; a report write that
\* succeeds leaves the milestones and the progress of every other report as
\* they are; a change of the catalog changes no report.
WriteChangesOneReport ==
    [][/\ Cardinality(ChangedReports) <= 1
       /\ \A w \in inflight : (w.op # "updateProject" /\ SettleWrite(w, "ok")) =>
             \A r \in DOMAIN weeklyReports : r # w.id =>
                 /\ r \in DOMAIN weeklyReports'
                 /\ weeklyReports'[r].milestones = weeklyReports[r].milestones
                 /\ weeklyReports'[r].progress = weeklyReports[r].progress
       /\ milestones' # milestones => weeklyReports' = weeklyReports]_vars

\* C17, witness: two reports are stored and the progress of one is no longer
\* what the catalog of now would give for its milestones
StoredProgressOutlivesCatalog ==
    /\ Cardinality(DOMAIN weeklyReports) = 2
    /\ \E r \in DOMAIN weeklyReports :
          /\ weeklyReports[r].projectId \in DOMAIN projects
          /\ weeklyReports[r].progress #
                 progressValue(Len(weeklyReports[r].milestones),
                     Cardinality(milestonesQuery(projects[weeklyReports[r].projectId].projectType)))

\* C18: the write of an edit that succeeds keeps the set of stored reports,
\* changes no report but the edited one, and leaves the projectId, the week
\* and the createdAt of the edited report as they are.
EditUpdatesInPlace ==
    [][\A w \in inflight : (w.op # "updateProject" /\ w.id # NoId /\ SettleWrite(w, "ok")) =>
          /\ DOMAIN weeklyReports' = DOMAIN weeklyReports
          /\ ChangedReports \subseteq {w.id}
          /\ \A r \in DOMAIN weeklyReports :
                /\ weeklyReports'[r].projectId = weeklyReports[r].projectId
                /\ weeklyReports'[r].week = weeklyReports[r].week
                /\ weeklyReports'[r].createdAt = weeklyReports[r].createdAt]_vars

\* C18, witness: with two reports stored, an edit has been saved and a report
\* holds milestones
EditSavedAmongTwo ==
    /\ Cardinality(DOMAIN weeklyReports) = 2
    /\ \E c \in Clients : EditSucceeded(c)
    /\ \E r \in DOMAIN weeklyReports :
          weeklyReports[r].milestones # <<>> /\ weeklyReports[r].progress > 0

\* C19: while the completion dialog of a form is open, the report the form
\* submitted is stored.
DialogOnlyAfterWrite ==
    \A c \in Clients : showCompletionDialog[c] =>
        \E r \in ReportsOf(project[c].id) :
            /\ weeklyReports[r].week = report(c).week
            /\ weeklyReports[r].summary = summary[c]
            /\ weeklyReports[r].status = status[c]
            /\ weeklyReports[r].milestones = checkedMilestones[c]

\* C20: the writes of one save that its caller awaits are never two at a time.
OneWriteInFlightPerSave ==
    \A c \in Clients : Cardinality({w \in inflight : w.client = c /\ w.awaited}) <= 1

\* two writes address the same report
SameReport(w1, w2) ==
    /\ w1.project = w2.project
    /\ w1.id = w2.id
    /\ w1.data.week = w2.data.week

\* C21: the report writes of one client that are in flight together address
\* different reports.
OneWritePerReportInFlight ==
    \A w1 \in inflight, w2 \in inflight :
        (/\ w1 # w2
         /\ w1.client = w2.client
         /\ w1.op # "updateProject"
         /\ w2.op # "updateProject")
        => ~SameReport(w1, w2)

\* C22: when a write of ProjectForm fails, for a denial or for any other
\* reason, the form's notification is a failure and not the success toast.
ProjectWriteFailureIsReported ==
    [][\A w \in projectWrites : \A outcome \in Outcomes \ {"ok"} :
          ProjectWriteSettle(w, outcome) =>
              \/ IsOutcome(projectNotice', "permission-error")
              \/ IsOutcome(projectNotice', "error")]_vars

\* C23: the milestones of every report write issued hold no id twice, so
\* their number is the number of distinct ids.
WrittenMilestonesAreASet ==
    [][\A w \in IssuedReportWrites :
          /\ \A i \in 1..Len(w.data.milestones), j \in 1..Len(w.data.milestones) :
                i # j => w.data.milestones[i] # w.data.milestones[j]
          /\ Len(w.data.milestones) = Cardinality(Range(w.data.milestones))]_vars

\* C23, witness: a report is being written with two milestones, the second of
\* the catalog checked before the first
WritingTwoMilestones ==
    \E w \in inflight :
        /\ w.awaited
        /\ w.op # "updateProject"
        /\ w.data.milestones = <<"m2", "m1">>

\* C24: opening the report page with a reportId that names no document ends
\* in the not-found outcome: no form is rendered, no report is added and no
\* write is issued.
MissingReportIsNotFound ==
    [][\A c \in Clients, p \in ProjectIds, n \in ReportIds, r \in ReportIds :
          OpenMissingReport(c, p, n, r) =>
              /\ ~FormOpen(c)'
              /\ notice'[c] = [kind |-> "not-found"]
              /\ inflight' = inflight
              /\ weeklyReports' = weeklyReports
              /\ projects' = projects]_vars

\* C24, witness: the page answered not-found for a report id while the
\* project and a report of it exist
NotFoundBesideStoredReport ==
    \E c \in Clients :
        /\ notice[c] = [kind |-> "not-found"]
        /\ ~FormOpen(c)
        /\ deleteTarget \in DOMAIN projects
        /\ ReportsOf(deleteTarget) # {}
        /\ DOMAIN weeklyReports # ReportIds

\* C25: the commit of the deletion of a project leaves every other project
\* and every report of every other project as it is.
DeletionSparesOtherProjects ==
    [][\A outcome \in Outcomes : DeleteCommit(outcome) =>
          /\ \A p \in DOMAIN projects \ {deleteTarget} :
                p \in DOMAIN projects' /\ projects'[p] = projects[p]
          /\ \A r \in DOMAIN weeklyReports : weeklyReports[r].projectId # deleteTarget =>
                r \in DOMAIN weeklyReports' /\ weeklyReports'[r] = weeklyReports[r]]_vars

\* C25, witness: a project was deleted with a report of its own while a
\* report of another project is stored
DeletedBesideOtherProject ==
    /\ deleteNotice = [kind |-> "success"]
    /\ deleteTarget \notin DOMAIN projects
    /\ nextReportId > 2
    /\ \E r \in DOMAIN weeklyReports : weeklyReports[r].projectId \in DOMAIN projects

\* the writes of client c a step issues
IssuedBy(c) == {w \in inflight' : w \notin inflight /\ w.client = c}

\* C26: no step that leaves the completion dialog of a form open issues a
\* write of that form, no write of the form is awaited while the dialog is
\* open, and dismissing the dialog issues no write and leaves the stored
\* reports and the projects as they are.
OpenDialogWritesNothing ==
    [][\A c \in Clients :
          /\ showCompletionDialog'[c] => IssuedBy(c) = {}
          /\ showCompletionDialog[c] =>
                /\ saving[c] = Null
                /\ ~\E w \in inflight : w.client = c /\ w.awaited
          /\ DialogClose(c) =>
                /\ inflight' = inflight
                /\ weeklyReports' = weeklyReports
                /\ projects' = projects]_vars

\* C26, witness: the dialog is open for a new report of a week no stored
\* report has, while a write an earlier save gave up on is still in flight
DialogOpenBesideEarlierWrite ==
    \E c \in Clients :
        /\ showCompletionDialog[c]
        /\ reportId[c] = NoId
        /\ ~\E r \in ReportsOf(project[c].id) : weeklyReports[r].week = reportNumber[c]
        /\ \E w \in inflight : w.client = c /\ ~w.awaited

\* the floor a new report of week n of project p inherits holds more ids than
\* the non-empty catalog subset of the type of the project
FloorExceedsCatalog(docs, catalog, p, n) ==
    /\ catalog # {}
    /\ Cardinality(StoredFloor(docs, p, n)) > Cardinality(catalog)

CreatedInWeekOrder(p) ==
    \A r1, r2 \in ReportsOf(p) : r1 < r2 => weeklyReports[r1].week < weeklyReports[r2].week

\* C29: when the reports of a project were created in increasing week order,
\* none was edited and the catalog stayed as it was, a report of a lower week
\* never stores a higher progress than a report of a higher week.
ProgressNonDecreasingInWeek ==
    \A p \in DOMAIN projects : CreatedInWeekOrder(p) =>
        \A r1, r2 \in ReportsOf(p) :
            weeklyReports[r1].week < weeklyReports[r2].week =>
                weeklyReports[r1].progress <= weeklyReports[r2].progress

\* C29, witness: two reports created in week order, the first with a
\* progress above 0 and the second with a higher one
ProgressGrewWithWeek ==
    \E p \in DOMAIN projects :
        /\ CreatedInWeekOrder(p)
        /\ \E r1, r2 \in ReportsOf(p) :
              /\ weeklyReports[r1].week < weeklyReports[r2].week
              /\ 0 < weeklyReports[r1].progress
              /\ weeklyReports[r1].progress < weeklyReports[r2].progress

\* C30: whenever the floor of a form that stays open changes, the checked set
\* of the form becomes exactly the new floor together with the stored
\* milestones of the report of the form.
FloorChangeReinitialisesChecked ==
    [][\A c \in Clients :
          (FormOpen(c) /\ FormOpen(c)' /\ floor(c)' # floor(c)) =>
              /\ Range(checkedMilestones'[c]) = floor(c)' \cup Range(report(c)'.milestones)
              /\ NoDuplicates(checkedMilestones'[c])]_vars

\* C30, witness: the form of a new report holds a result of the query with
\* more earlier reports than there were when it was opened, and its checked
\* set is the non-empty floor
FormHoldsLaterFloor ==
    \E c \in Clients :
        /\ FormOpen(c)
        /\ reportId[c] = NoId
        /\ Len(previousReports[c]) >= reportNumber[c]
        /\ floor(c) # {}
        /\ Range(checkedMilestones[c]) = floor(c)
        /\ floor(c) # projectMilestones[c]

====
